---- MODULE Spec2Model ----
(***************************************************************************)
(* pagetext-to-flashcards: a model of the page scraper (scrape_page.js),   *)
(* the flashcard text generator (generate_flashcard_text.js), the deck     *)
(* prompt (main_user_prompts.js, anki_helper.js, input_validation.js) and  *)
(* the review / add / log flow (index.js, anki_helper.js, anki.js,         *)
(* utils.js).                                                              *)
(*                                                                         *)
(* A JavaScript string is a sequence of one-character strings, so that     *)
(* regular expressions, trimming and substring tests are computed          *)
(* character by character.  Indices into a string are 0-based as in        *)
(* JavaScript (lastIndex, match.index).                                    *)
(***************************************************************************)
EXTENDS Integers, Sequences, FiniteSets, TLC

VARIABLES
  response,     \* formatResponse: the chat-completion response object
  content,      \* formatResponse: String(response.choices[0].message.content)
  lastIndex,    \* formatResponse: regex.lastIndex of the /g regex
  cards,        \* formatResponse: the cards array
  frPc,         \* formatResponse: "idle", "start", "loop", "returned", "threw"
  frError,      \* formatResponse: the error thrown, "none" when none
  given         \* the blocks and layout the response text was built from
                \* (describes the input; the code never reads it)

frVars == <<response, content, lastIndex, cards, frPc, frError, given>>

VARIABLES
  url,          \* scrapePage: the url argument
  page,         \* scrapePage: the document JSDOM builds from the fetched page
  settings,     \* scrapePage: excludeElements, excludeIDs, excludeClasses,
                \* includeElements
  spPc,         \* scrapePage: "idle", "start", "fetching", "returned", "threw"
  pageText,     \* scrapePage: the array it resolves to
  textFrom,     \* for each entry of pageText, the element it was taken from
                \* (a record of the run; the code never reads it)
  spFailure,    \* scrapePage: the step that threw inside the try block
  spError       \* scrapePage: the error that left the function, "none" if none

spVars ==
  <<url, page, settings, spPc, pageText, textFrom, spFailure, spError>>

VARIABLES
  ankiUrl,      \* mainUserInputHandler: settings.ankiUrl
  currentDecks, \* mainUserInputHandler: the deck names AnkiConnect reported
  dkPc,         \* mainUserInputHandler: "idle", "start", "selectDeck",
                \* "createPrompt", "creating", "deckChosen"
  dkInput,      \* createDeckPrompt: the name the user typed last
  dkMessage,    \* createDeckPrompt: what validate answered to it
  deckName,     \* mainUserInputHandler: deckName
  createDeckRequests  \* the names sent to AnkiConnect with createDeck

dkVars ==
  <<ankiUrl, currentDecks, dkPc, dkInput, dkMessage, deckName,
    createDeckRequests>>

VARIABLES
  saveToLogs,   \* mainHandler: the answer to "Save the fetched data to logs?"
  addTags,      \* mainHandler: the answer to "Add tags to the generated cards?"
  tags,         \* mainHandler: the tags of mainUserInputHandler
  flashcardText,\* mainHandler: the cards generateFlashCardText returned
  acPc,         \* mainHandler: "idle", "prompts", "review", "cardTags",
                \* "posting", "returned", "done"
  cardIndex,    \* addCards...: the position of the for loop in flashcardText
  cardTags,     \* addCardsDifferentTags: the tags sent with the current card
  cardsAdded,   \* addCards...: cardsAdded, then cardsToLog of mainHandler
  addNoteRequests,  \* the addNote requests posted to AnkiConnect
  ankiNotes,    \* the notes Anki holds: those of the requests it accepted
  addNoteLog,   \* what addFlashcardToAnki logged for each request: "added",
                \* "error" or "unreachable"
  csvFile,      \* cards_generated.csv in settings.logDirectory
  reviews       \* the answers reviewFlashcard got, one per card presented
                \* (a record of the run; the code never reads it)

acVars ==
  <<saveToLogs, addTags, tags, flashcardText, acPc, cardIndex, cardTags,
    cardsAdded, addNoteRequests, ankiNotes, addNoteLog, csvFile, reviews>>

VARIABLES
  pageTextArray,\* generateFlashCardText: the pageTextArray argument
  context,      \* generateFlashCardText: the context argument
  apiKey,       \* constants.js: apiKey
  model,        \* generateFlashCardText: the model argument
  gfPc,         \* generateFlashCardText: "idle", "start", "requesting",
                \* "returned", "threw"
  gfError,      \* generateFlashCardText: the error thrown, "none" when none
  chatRequests, \* the chat-completion requests sent to OpenAI
  mhPc          \* mainHandler: "idle", "generate", "addCards", "rejected"

gfVars ==
  <<pageTextArray, context, apiKey, model, gfPc, gfError, chatRequests, mhPc>>

VARIABLES
  settingsFile, \* settings.json: the settings it holds, NoSettings if it
                \* cannot be read
  csSettings,   \* confirmSettings: settings
  csPc,         \* confirmSettings: "idle", "prompt", "adjusting", "returned",
                \* "threw"
  lastSave,     \* saveSettings: "none", "saved" or "error", what the last
                \* call logged
  mainSettings, \* main: settings
  mnPc,         \* main: "idle", "confirming", "handler", "menu", "editing",
                \* "exited", "crashed"
  runSettings,  \* mainHandler: the settings argument of its last run
  runs          \* the number of runs of mainHandler so far

mnVars ==
  <<settingsFile, csSettings, csPc, lastSave, mainSettings, mnPc, runSettings,
    runs>>

VARIABLES
  platform,     \* validateDirectory: process.platform
  dirpath,      \* validateDirectory: the dirpath argument
  fileSystem,   \* the directories and files validateDirectory looks at
  vdPc,         \* validateDirectory: "idle", "start", "returned", "threw"
  vdResult      \* validateDirectory: the object returned

vdVars == <<platform, dirpath, fileSystem, vdPc, vdResult>>

VARIABLES
  logCalls      \* the calls of writeLogs so far: the cards argument of each,
                \* and whether its write went through (a record of the run;
                \* the code never reads it)

lgVars == <<logCalls>>

vars == <<frVars, spVars, dkVars, acVars, gfVars, mnVars, vdVars, lgVars>>

-----------------------------------------------------------------------------
(* Bounds *)

MaxBlocks == 2      \* Q/A blocks in a generated response
MaxLen == 3         \* length of the free-form (unstructured) responses
MaxNodes == 3       \* elements of a scraped document
MaxCards == 2       \* cards handed to the review loop
MaxRuns == 2        \* runs of mainHandler in one run of main

-----------------------------------------------------------------------------
(* Characters and strings *)

NoMatch == -1

\* JavaScript \s (restricted to the whitespace characters of the model)
IsSpace(c) == c \in {" ", "\n", "\t"}

\* JavaScript \d
IsDigit(c) == c \in {"1", "2"}

\* the character at 0-based index i, "EOF" past the end
At(s, i) == IF i >= 0 /\ i < Len(s) THEN s[i + 1] ELSE "EOF"

\* s.substring(a, b): characters a .. b-1 (0-based)
Substring(s, a, b) == IF b <= a THEN << >> ELSE SubSeq(s, a + 1, b)

RECURSIVE TrimStart(_)
TrimStart(s) ==
  IF s = << >> THEN << >>
  ELSE IF IsSpace(Head(s)) THEN TrimStart(Tail(s)) ELSE s

RECURSIVE TrimEnd(_)
TrimEnd(s) ==
  IF s = << >> THEN << >>
  ELSE IF IsSpace(s[Len(s)]) THEN TrimEnd(SubSeq(s, 1, Len(s) - 1)) ELSE s

\* String.prototype.trim
Trim(s) == TrimEnd(TrimStart(s))

\* does the literal lit occur in s at 0-based index i
LitAt(s, lit, i) ==
  /\ i + Len(lit) <= Len(s)
  /\ \A k \in 1..Len(lit) : s[i + k] = lit[k]

-----------------------------------------------------------------------------
\* The regular expression of formatResponse (generate_flashcard_text.js),
\* flags g, m and s, piece by piece:
\*     (?: \d+ \. \s* )?       an optional ordinal, "1. "
\*     [\*]* \s* Q: \s*        emphasis characters, the marker "Q:"
\*     (.+?)                   group 1, the question (lazy)
\*     \s* [\*]* \s* A: \s*    emphasis characters, the marker "A:"
\*     (.+?)                   group 2, the answer (lazy)
\*     (?= \n\d+\. | \nQ: | \n$ )   the lookahead that ends the answer
\* as a backtracking matcher.  Every piece yields the end positions the
\* engine tries, in the order it tries them (greedy: longest first, lazy:
\* shortest first); the match is the first combination that succeeds.

Spaces == {" ", "\n", "\t"}
Digits == {"1", "2"}
Stars == {"*"}

\* the index after the longest run of characters of class C starting at i
RECURSIVE RunEnd(_, _, _)
RunEnd(s, i, C) == IF At(s, i) \in C THEN RunEnd(s, i + 1, C) ELSE i

\* zero or more of C (greedy): every end from the longest run down to the empty one
GreedyStar(s, i, C) ==
  LET m == RunEnd(s, i, C) IN [k \in 1..(m - i + 1) |-> m - k + 1]

\* one or more of C (greedy): as above, without the empty run
GreedyPlus(s, i, C) ==
  LET m == RunEnd(s, i, C) IN [k \in 1..(m - i) |-> m - k + 1]

\* Lit with the literal optional: the piece also matches without it
LitOptional(s, i, lit) == IF LitAt(s, lit, i) THEN <<i + Len(lit)>> ELSE <<i>>

\* a literal: one end or none
Lit(s, i, lit) == IF LitAt(s, lit, i) THEN <<i + Len(lit)>> ELSE << >>

RECURSIVE Flatten(_)
Flatten(ss) == IF ss = << >> THEN << >> ELSE Head(ss) \o Flatten(Tail(ss))

\* a piece followed by zero or more of C: for each end of the piece, in
\* order, the ends of the run
StarAfter(s, ends, C) ==
  Flatten([k \in 1..Len(ends) |-> GreedyStar(s, ends[k], C)])

\* a piece followed by a literal
LitAfter(s, ends, lit) ==
  Flatten([k \in 1..Len(ends) |-> Lit(s, ends[k], lit)])

\* the optional ordinal, a greedy optional group: with the group first, then
\* without
OrdinalEnds(s, i) ==
  StarAfter(s, LitAfter(s, GreedyPlus(s, i, Digits), <<".">>), Spaces)
  \o <<i>>

\* emphasis, whitespace, a marker and whitespace after the ends of a piece
MarkerAfter(s, ends, marker) ==
  StarAfter(s,
            LitAfter(s, StarAfter(s, StarAfter(s, ends, Stars), Spaces), marker),
            Spaces)

\* ordinal, emphasis, Q: and whitespace: the positions where group 1 may start
QuestionStarts(s, i) == MarkerAfter(s, OrdinalEnds(s, i), <<"Q", ":">>)

\* whitespace, emphasis, A: and whitespace: the positions where group 2 may
\* start, group 1 having ended at b
AnswerStarts(s, b) ==
  MarkerAfter(s, GreedyStar(s, b, Spaces), <<"A", ":">>)

\* $ under the m flag: the end of the input or the position before a newline
EndOfLine(s, i) == i = Len(s) \/ At(s, i) = "\n"

\* the lookahead: newline digits dot, or newline Q:, or newline end-of-line
Lookahead(s, e) ==
  \/ /\ At(s, e) = "\n"
     /\ RunEnd(s, e + 1, Digits) > e + 1
     /\ At(s, RunEnd(s, e + 1, Digits)) = "."
  \/ LitAt(s, <<"\n", "Q", ":">>, e)
  \/ /\ At(s, e) = "\n"
     /\ EndOfLine(s, e + 1)

Min(S) == CHOOSE x \in S : \A y \in S : x <= y

\* the first element of the sequence ends that is in the set ok, NoMatch if
\* none is
FirstIn(ends, ok) ==
  LET ks == {k \in 1..Len(ends) : ends[k] \in ok}
  IN IF ks = {} THEN NoMatch ELSE ends[Min(ks)]

\* the lazy group 2 from d (the s flag lets . match a newline): the first end
\* at or after e at which the lookahead succeeds, NoMatch if none
RECURSIVE FirstAnswerEnd(_, _)
FirstAnswerEnd(s, e) ==
  IF e > Len(s) THEN NoMatch
  ELSE IF Lookahead(s, e) THEN e ELSE FirstAnswerEnd(s, e + 1)

\* group 2 may start at d: it takes one character at least
AnswerStartOk(s, d) == FirstAnswerEnd(s, d + 1) # NoMatch

\* the first of the positions group 2 may start at, group 1 having ended at
\* b, from which the rest of the pattern matches; NoMatch if there is none
FirstAnswerStart(s, b) ==
  LET starts == AnswerStarts(s, b)
  IN FirstIn(starts, {starts[k] : k \in {j \in 1..Len(starts) :
                                            AnswerStartOk(s, starts[j])}})

\* group 1 may end at b: the rest of the pattern matches from there
FrontEndOk(s, b) == FirstAnswerStart(s, b) # NoMatch

\* the lazy group 1: the first end at or after b from which the rest matches
RECURSIVE FirstFrontEnd(_, _)
FirstFrontEnd(s, b) ==
  IF b > Len(s) THEN NoMatch
  ELSE IF FrontEndOk(s, b) THEN b ELSE FirstFrontEnd(s, b + 1)

\* group 1 may start at a: it takes one character at least
QuestionStartOk(s, a) == FirstFrontEnd(s, a + 1) # NoMatch

NoMatchAt == [found |-> FALSE, index |-> NoMatch, g1 |-> << >>, g2 |-> << >>,
              end |-> NoMatch]

\* the first of the positions group 1 may start at, the match starting at i,
\* from which the rest of the pattern matches; NoMatch if there is none
FirstQuestionStart(s, i) ==
  LET starts == QuestionStarts(s, i)
  IN FirstIn(starts, {starts[k] : k \in {j \in 1..Len(starts) :
                                            QuestionStartOk(s, starts[j])}})

\* the match the engine finds when it starts at index i
MatchAt(s, i) ==
  LET a == FirstQuestionStart(s, i)
  IN IF a = NoMatch THEN NoMatchAt
     ELSE LET b == FirstFrontEnd(s, a + 1)
              d == FirstAnswerStart(s, b)
              e == FirstAnswerEnd(s, d + 1)
          IN [found |-> TRUE, index |-> i, g1 |-> Substring(s, a, b),
              g2 |-> Substring(s, d, e), end |-> e]

\* regex.exec(content) of a /g regex: the leftmost match at or after from
RECURSIVE RegexExec(_, _)
RegexExec(s, from) ==
  IF from > Len(s) THEN NoMatchAt
  ELSE LET m == MatchAt(s, from)
       IN IF m.found THEN m ELSE RegexExec(s, from + 1)

-----------------------------------------------------------------------------
(* The responses formatResponse is given *)

\* the characters of the free-form responses
Alphabet == {"Q", "A", ":", " ", "\n", "*", "1", ".", "x"}

RECURSIVE StringsUpTo(_)
StringsUpTo(n) ==
  IF n = 0 THEN {<< >>}
  ELSE LET shorter == StringsUpTo(n - 1)
       IN shorter \cup {Append(s, c) : s \in shorter, c \in Alphabet}

\* longer responses that lack a marker, or hold "A:" only ahead of "Q:"
UnmarkedTexts ==
  { <<"Q", ":", " ", "x", "\n">>,
    <<"A", ":", " ", "x", "\n">>,
    <<"Q", ":", " ", "x", "\n", "Q", ":", " ", "x", "\n">>,
    <<"x", " ", "A", ":", " ", "x", " ", "Q", ":", " ", "x", "\n">> }

\* question and answer texts of the generated blocks
Questions == {<<"x">>, <<"x", " ", "x">>}
Answers == {<<"x">>, <<"1">>, <<"x", "\n", "\n", "x">>}

\* the layouts the model asks ChatGPT for, or gets: an ordinal before each
\* block, emphasis around each block, the separator between two blocks and
\* whether a newline follows the last block
Layouts ==
  [ordinal : BOOLEAN, emphasis : BOOLEAN,
   sep : {<<"\n">>, <<"\n", "\n">>}, trailing : BOOLEAN]

\* the ordinal of block k: "1. ", "2. ", ...
OrdinalText(k) == <<(IF k % 2 = 1 THEN "1" ELSE "2"), ".", " ">>

\* one block: [ordinal] [**] Q: question A: answer [**]
BlockText(lay, k, qa) ==
  (IF lay.ordinal THEN OrdinalText(k) ELSE << >>)
  \o (IF lay.emphasis THEN <<"*", "*">> ELSE << >>)
  \o <<"Q", ":", " ">> \o qa.q \o <<" ", "A", ":", " ">> \o qa.a
  \o (IF lay.emphasis THEN <<"*", "*">> ELSE << >>)

RECURSIVE JoinBlocks(_, _, _)
JoinBlocks(lay, qas, k) ==
  IF k > Len(qas) THEN (IF lay.trailing THEN <<"\n">> ELSE << >>)
  ELSE BlockText(lay, k, qas[k])
       \o (IF k < Len(qas) THEN lay.sep ELSE << >>)
       \o JoinBlocks(lay, qas, k + 1)

\* the text of a response made of the blocks qas in layout lay
ResponseText(lay, qas) == JoinBlocks(lay, qas, 1)

QAs == [q : Questions, a : Answers]

BlockSeqs == UNION {[1..n -> QAs] : n \in 1..MaxBlocks}

NoLayout == [ordinal |-> FALSE, emphasis |-> FALSE, sep |-> <<"\n">>,
             trailing |-> FALSE]

\* response.choices[0].message.content: a string, null or undefined, or a
\* response without choices[0].message
StringResponse(text) == [kind |-> "string", text |-> text]
NonStringResponses ==
  {[kind |-> k, text |-> << >>] : k \in {"undefined", "null", "nomessage"}}

-----------------------------------------------------------------------------
(* The documents scrapePage reads *)

\* A document is its elements 1..n in document order (preorder): parent[e] is
\* the parent element (0 for the root), tag, id and class are the element's
\* name and attributes (<< >> for a missing attribute), text is the text the
\* element holds itself, ahead of its child elements.

RECURSIVE IsAncestorOrSelf(_, _, _)
IsAncestorOrSelf(parent, a, e) ==
  IF e = 0 THEN FALSE
  ELSE IF e = a THEN TRUE ELSE IsAncestorOrSelf(parent, a, parent[e])

\* the parent functions of the trees with n elements numbered in preorder
Trees(n) ==
  {p \in [1..n -> 0..(n - 1)] :
     /\ p[1] = 0
     /\ \A e \in 2..n : p[e] # 0 /\ IsAncestorOrSelf(p, p[e], e - 1)}

RootKind == [tag |-> "html", id |-> << >>, class |-> << >>]

\* what the elements below the root are
ElementKinds ==
  { [tag |-> "div", id |-> << >>, class |-> << >>],
    [tag |-> "nav", id |-> << >>, class |-> << >>],
    [tag |-> "p", id |-> <<"a", "d", "s">>, class |-> << >>],
    [tag |-> "p", id |-> << >>, class |-> <<"m", "n", "u">>] }

\* the text an element below the root holds itself (the root holds none)
Texts ==
  { <<"\n", " ">>,
    <<"x">>,
    <<" ", "x", "\n", "\t", "y", " ">> }

Pages ==
  UNION { { [n |-> n, parent |-> p,
             kind |-> [e \in 1..n |-> IF e = 1 THEN RootKind ELSE k[e]],
             text |-> [e \in 1..n |-> IF e = 1 THEN << >> ELSE x[e]]] :
            p \in Trees(n), k \in [2..n -> ElementKinds],
            x \in [2..n -> Texts] } : n \in 1..MaxNodes }

\* the filter lists of settings.json; "!" stands for an entry that makes the
\* selector built from the list one the DOM library rejects
ExcludeLists ==
  { [excludeElements |-> << >>, excludeIDs |-> << >>, excludeClasses |-> << >>],
    [excludeElements |-> <<"nav">>, excludeIDs |-> << >>,
     excludeClasses |-> << >>],
    [excludeElements |-> << >>, excludeIDs |-> <<<<"a", "d">>>>,
     excludeClasses |-> << >>],
    [excludeElements |-> << >>, excludeIDs |-> << >>,
     excludeClasses |-> <<<<"n", "u">>>>],
    [excludeElements |-> <<"nav">>, excludeIDs |-> <<<<"a", "d">>>>,
     excludeClasses |-> <<<<"n", "u">>>>] }

ValidSettings ==
  { [includeElements |-> inc, excludeElements |-> x.excludeElements,
     excludeIDs |-> x.excludeIDs, excludeClasses |-> x.excludeClasses] :
      inc \in {<< >>, <<"p">>}, x \in ExcludeLists }

NoFilters ==
  [includeElements |-> << >>, excludeElements |-> << >>,
   excludeIDs |-> << >>, excludeClasses |-> << >>]

RejectedSettings ==
  { [NoFilters EXCEPT !.includeElements = <<"!">>],
    [NoFilters EXCEPT !.excludeElements = <<"nav", "!">>] }

Settings == ValidSettings \cup RejectedSettings

Urls == {"", "https://page"}

EmptyPage ==
  [n |-> 1, parent |-> [e \in 1..1 |-> 0], kind |-> [e \in 1..1 |-> RootKind],
   text |-> [e \in 1..1 |-> << >>]]

-----------------------------------------------------------------------------
(* The decks and names of mainUserInputHandler *)

\* the names of the decks Anki may hold
DeckNames == {<<"D">>, <<"E">>, <<"1">>}

\* what the user may type at "Enter the name of the new deck:"
TypedNames ==
  {<< >>, <<" ">>, <<"D">>, <<" ", "D", " ">>, <<"E">>, <<"N">>, <<"1">>,
   <<"N", "2">>}

\* settings.ankiUrl
AnkiUrls == {<<"h", "t", "t", "p", ":", "/", "/", "a", ":", "8">>}

\* a JavaScript value handed to Object.keys: an object with its own keys, or
\* a string
ObjectValue(keys) == [type |-> "object", keys |-> keys, chars |-> << >>]
StringValue(s) == [type |-> "string", keys |-> {}, chars |-> s]

\* String(i) for an index 0..9
DecimalDigits == <<"0", "1", "2", "3", "4", "5", "6", "7", "8", "9">>

\* Object.keys(v): the own keys of an object; of a string, its indices
ObjectKeys(v) ==
  IF v.type = "string"
  THEN {<<DecimalDigits[i]>> : i \in 1..Len(v.chars)}
  ELSE v.keys

\* mainUserInputHandler is not running
DkIdle ==
  /\ ankiUrl = << >>
  /\ currentDecks = {}
  /\ dkPc = "idle"
  /\ dkInput = << >>
  /\ dkMessage = "none"
  /\ deckName = << >>
  /\ createDeckRequests = << >>

-----------------------------------------------------------------------------
(* The cards, tags and log file of mainHandler *)

\* the cards generateFlashCardText may return
Cards ==
  { [front |-> <<"x">>, back |-> <<"y">>],
    [front |-> <<"\"", "x", "\"">>, back |-> <<"y", "\n", "z">>] }

CardLists == UNION {[1..n -> Cards] : n \in 0..MaxCards}

\* what the user may type at a tags prompt
TypedTags == {<< >>, <<"a">>, <<"a", ",", " ", "b">>}

\* a tags value as sent to AnkiConnect: an array of strings, or (line 90 of
\* anki_helper.js) the empty string
TagArray(items) == [type |-> "array", items |-> items]
EmptyStringTags == [type |-> "string", items |-> << >>]

\* new Date().toISOString().split("T")[0], and the date of an earlier run
DateGenerated == <<"2026-11-01">>
EarlierDate == <<"2026-10-31">>

\* the header record of the log
CsvHeader == <<<<"Date Generated">>, <<"Front">>, <<"Back">>>>

\* the log file before the run: missing, or written by an earlier run
MissingFile == [exists |-> FALSE, records |-> << >>]
EarlierFile ==
  [exists |-> TRUE,
   records |-> <<CsvHeader, <<EarlierDate, <<"x">>, <<"y">>>>>>]

\* the review loop is not running
AcIdle ==
  /\ saveToLogs = FALSE
  /\ addTags = "No tags"
  /\ tags = TagArray(<< >>)
  /\ flashcardText = << >>
  /\ acPc = "idle"
  /\ cardIndex = 1
  /\ cardTags = TagArray(<< >>)
  /\ cardsAdded = << >>
  /\ addNoteRequests = << >>
  /\ ankiNotes = << >>
  /\ addNoteLog = << >>
  /\ csvFile = MissingFile
  /\ reviews = << >>

-----------------------------------------------------------------------------
(* The arguments of generateFlashCardText *)

\* a JavaScript value that is a string, undefined, or an array of strings
Undefined == [kind |-> "undefined", text |-> << >>]
JsString(text) == [kind |-> "string", text |-> text]
JsArray(items) == [kind |-> "array", items |-> items]
UndefinedArray == [kind |-> "undefined", items |-> << >>]

\* !v for a string or undefined: undefined and the empty string are falsy
Falsy(v) == v.kind # "string" \/ v.text = << >>

\* what scrapePage resolves to, and a missing argument
PageTextArrays ==
  { JsArray(<< >>), JsArray(<<<<"x">>>>), JsArray(<<<<"x">>, <<"x", " ", "y">>>>),
    UndefinedArray }

\* settings.context, process.env.OPENAI_API_KEY and settings.model
Contexts == {Undefined, JsString(<< >>), JsString(<<"c">>)}
ApiKeys == {Undefined, JsString(<<"k">>)}
Models == {Undefined, JsString(<< >>), JsString(<<"m">>)}

\* what the chat completion may resolve to
ChatResponses ==
  { StringResponse(<<"Q", ":", " ", "x", " ", "A", ":", " ", "y", "\n">>),
    StringResponse(<<"Q", ":", " ", "x", " ", "A", ":", " ", "y", "\n",
                     "Q", ":", " ", "x", " ", "A", ":", " ", "y", "\n">>),
    StringResponse(<<"x">>),
    [kind |-> "null", text |-> << >>] }

-----------------------------------------------------------------------------
(* The paths and the file system of validateDirectory *)

\* process.platform
Platforms == {"win32", "linux", "darwin", "freebsd"}

\* the root of the absolute paths and the separator path.dirname splits at;
\* "\\" is one backslash
Root(os) == IF os = "win32" THEN <<"C", ":", "\\">> ELSE <<"/">>
Separators(os) == IF os = "win32" THEN {"\\", "/"} ELSE {"/"}
Separator(os) == IF os = "win32" THEN "\\" ELSE "/"

\* the file system: the root directory, writable or not, holds l, which is a
\* writable directory, a read-only directory, a file, or missing; nothing
\* else exists; the working directory is the root
FileSystems ==
  [l : {"directory", "readonly", "file", "missing"}, rootWritable : BOOLEAN]

\* the paths given to validateDirectory: l and a missing n below it as
\* absolute paths, l and a missing n as relative paths, and a path with the
\* character NUL ("NUL" stands for it)
Dirpaths(os) ==
  { Root(os) \o <<"l">>,
    Root(os) \o <<"l", Separator(os), "n">>,
    <<"l">>,
    <<"n">>,
    <<"l", "NUL">> }

NoResult == [validPath |-> FALSE, error |-> "none"]

-----------------------------------------------------------------------------
(* The settings of settings.json *)

\* the settings the model follows: one set by a list prompt (model) and one
\* edited as a list (excludeElements)
ModelIds == {"gpt-a", "gpt-b"}
ElementLists == {<< >>, <<"nav">>}
SettingsValues ==
  {[kind |-> "object", model |-> m, excludeElements |-> x] :
     m \in ModelIds, x \in ElementLists}

\* null: what loadSettings returns when settings.json cannot be read or
\* parsed; as the content of the file: no settings can be read from it
NoSettings == [kind |-> "null", model |-> "", excludeElements |-> << >>]

-----------------------------------------------------------------------------
(* Each part of the program runs on its own: what holds of a part that is  *)
(* not running, and what a step of one part leaves alone                   *)

\* formatResponse is not running
FrIdle ==
  /\ response = [kind |-> "undefined", text |-> << >>]
  /\ given = [blocks |-> << >>, layout |-> NoLayout]
  /\ content = << >>
  /\ lastIndex = 0
  /\ cards = << >>
  /\ frPc = "idle"
  /\ frError = "none"

\* scrapePage is not running
SpIdle ==
  /\ url = ""
  /\ page = EmptyPage
  /\ settings = NoFilters
  /\ spPc = "idle"
  /\ pageText = << >>
  /\ textFrom = << >>
  /\ spFailure = "none"
  /\ spError = "none"

\* generateFlashCardText is not running
GfIdle ==
  /\ pageTextArray = JsArray(<< >>)
  /\ context = Undefined
  /\ apiKey = Undefined
  /\ model = Undefined
  /\ gfPc = "idle"
  /\ gfError = "none"
  /\ chatRequests = << >>
  /\ mhPc = "idle"

\* main is not running
MnIdle ==
  /\ settingsFile = NoSettings
  /\ csSettings = NoSettings
  /\ csPc = "idle"
  /\ lastSave = "none"
  /\ mainSettings = NoSettings
  /\ mnPc = "idle"
  /\ runSettings = NoSettings
  /\ runs = 0

\* validateDirectory is not running
VdIdle ==
  /\ platform = "linux"
  /\ dirpath = << >>
  /\ fileSystem = [l |-> "missing", rootWritable |-> FALSE]
  /\ vdPc = "idle"
  /\ vdResult = NoResult

\* a step of validateDirectory leaves the rest of the program alone
VdOnly ==
  UNCHANGED <<frVars, spVars, dkVars, acVars, gfVars, mnVars, lgVars>>

\* writeLogs has not been called
LgIdle == logCalls = << >>

\* a call of writeLogs on its own leaves the rest of the program alone
LgOnly ==
  /\ UNCHANGED <<frVars, spVars, dkVars, gfVars, mnVars, vdVars>>
  /\ UNCHANGED <<saveToLogs, addTags, tags, flashcardText, acPc, cardIndex,
                 cardTags, cardsAdded, addNoteRequests, ankiNotes, addNoteLog,
                 reviews>>

\* a step of formatResponse leaves the rest of the program alone
FrOnly ==
  UNCHANGED <<spVars, dkVars, acVars, gfVars, mnVars, vdVars, lgVars>>

\* a step of scrapePage leaves the rest of the program alone
SpOnly ==
  UNCHANGED <<frVars, dkVars, acVars, gfVars, mnVars, vdVars, lgVars>>

\* a step of mainUserInputHandler leaves the rest of the program alone
DkOnly ==
  UNCHANGED <<frVars, spVars, acVars, gfVars, mnVars, vdVars, lgVars>>

\* a step of the review loop leaves the rest of the program alone
AcOnly ==
  UNCHANGED <<frVars, spVars, dkVars, gfVars, mnVars, vdVars, lgVars>>

\* a step of generateFlashCardText leaves the rest of the program alone
GfOnly ==
  UNCHANGED <<frVars, spVars, dkVars, mnVars, vdVars, lgVars>>

\* a step of main or of confirmSettings leaves the rest of the program alone
MnOnly ==
  UNCHANGED <<frVars, spVars, dkVars, acVars, gfVars, vdVars, lgVars>>

-----------------------------------------------------------------------------
(* formatResponse *)

\* Init: a response made of blocks, a free-form response, or one without
\* textual content
FrInit ==
  /\ \/ \E lay \in Layouts, qas \in BlockSeqs :
          /\ response = StringResponse(ResponseText(lay, qas))
          /\ given = [blocks |-> qas, layout |-> lay]
     \/ \E text \in StringsUpTo(MaxLen) \cup UnmarkedTexts :
          /\ response = StringResponse(text)
          /\ given = [blocks |-> << >>, layout |-> NoLayout]
     \/ \E r \in NonStringResponses :
          /\ response = r
          /\ given = [blocks |-> << >>, layout |-> NoLayout]
  /\ content = << >>
  /\ lastIndex = 0
  /\ cards = << >>
  /\ frPc = "start"
  /\ frError = "none"
  /\ SpIdle
  /\ DkIdle
  /\ AcIdle
  /\ GfIdle
  /\ MnIdle
  /\ VdIdle
  /\ LgIdle

\* NoContent with the empty string taken for content (content === undefined ||
\* content === null)
NoContentNullish(r) == r.kind \in {"undefined", "null"}

\* !response.choices[0].message.content : the content is undefined, null or
\* the empty string
NoContent(r) == r.kind \in {"undefined", "null"} \/ r.text = << >>

\* line 87: response.choices[0].message.content is read; a response without
\* choices[0].message makes the read itself throw a TypeError
FormatResponseThrowTypeError ==
  /\ frPc = "start"
  /\ response.kind = "nomessage"
  /\ frPc' = "threw"
  /\ frError' = "TypeError"
  /\ UNCHANGED <<response, given, content, lastIndex, cards>>
  /\ FrOnly

\* lines 87-89: throw new Error("No content in the response")
FormatResponseThrowNoContent ==
  /\ frPc = "start"
  /\ response.kind # "nomessage"
  /\ NoContent(response)
  /\ frPc' = "threw"
  /\ frError' = "No content in the response"
  /\ UNCHANGED <<response, given, content, lastIndex, cards>>
  /\ FrOnly

\* lines 91-95: content = String(...), the regex with lastIndex 0, cards = []
FormatResponseEnter ==
  /\ frPc = "start"
  /\ response.kind # "nomessage"
  /\ ~NoContent(response)
  /\ content' = response.text
  /\ lastIndex' = 0
  /\ cards' = << >>
  /\ frPc' = "loop"
  /\ UNCHANGED <<response, given, frError>>
  /\ FrOnly

\* the card pushed for a match: both groups trimmed
CardOf(m) == [front |-> Trim(m.g1), back |-> Trim(m.g2)]

\* lines 97-101: one iteration of the while loop, regex.exec found a match
FormatResponseMatch ==
  /\ frPc = "loop"
  /\ LET m == RegexExec(content, lastIndex)
     IN /\ m.found
        /\ cards' = Append(cards, CardOf(m))
        /\ lastIndex' = m.end
  /\ UNCHANGED <<response, given, content, frPc, frError>>
  /\ FrOnly

\* lines 97, 103: regex.exec returned null, the loop ends and cards is returned
FormatResponseReturn ==
  /\ frPc = "loop"
  /\ ~RegexExec(content, lastIndex).found
  /\ lastIndex' = 0
  /\ frPc' = "returned"
  /\ UNCHANGED <<response, given, content, cards, frError>>
  /\ FrOnly

FrNext ==
  \/ FormatResponseThrowTypeError
  \/ FormatResponseThrowNoContent
  \/ FormatResponseEnter
  \/ FormatResponseMatch
  \/ FormatResponseReturn

SpecPairs == FrInit /\ [][FrNext]_vars

-----------------------------------------------------------------------------
(* scrapePage *)

\* the entries of a list as a set
Range(f) == {f[k] : k \in 1..Len(f)}

\* Contains matching the whole attribute value only, as [att='sub'] would
ContainsWhole(s, sub) == s = sub

\* String.prototype.includes, as the attribute selector [att*='sub'] tests it
Contains(s, sub) ==
  \E i \in 0..(Len(s) - Len(sub)) : LitAt(s, sub, i)

\* element.textContent: the element's own text and that of its descendants,
\* in document order
RECURSIVE TextContentFrom(_, _, _)
TextContentFrom(doc, e, j) ==
  IF j > doc.n THEN << >>
  ELSE (IF IsAncestorOrSelf(doc.parent, e, j) THEN doc.text[j] ELSE << >>)
       \o TextContentFrom(doc, e, j + 1)

TextContent(doc, e) == TextContentFrom(doc, e, e)

\* CollapseWhitespace without the replace: the text is only trimmed
CollapseNothing(s) == s

\* .replace(/\s+/g, " "): every run of whitespace becomes one space
RECURSIVE CollapseWhitespace(_)
CollapseWhitespace(s) ==
  IF s = << >> THEN << >>
  ELSE IF IsSpace(Head(s))
       THEN <<" ">> \o CollapseWhitespace(SubSeq(s, RunEnd(s, 0, Spaces) + 1, Len(s)))
       ELSE <<Head(s)>> \o CollapseWhitespace(Tail(s))

\* lines 70, 77: element.textContent.replace(/\s+/g, " ").trim()
NormalizedText(doc, e) == Trim(CollapseWhitespace(TextContent(doc, e)))

\* lines 37-48: does the element match combinedExcludeSelectors, the list
\*   tag, ..., [id*='s'], ..., [class*='s'], ...
MatchesExclude(doc, e, st) ==
  \/ doc.kind[e].tag \in Range(st.excludeElements)
  \/ \E s \in Range(st.excludeIDs) : Contains(doc.kind[e].id, s)
  \/ \E s \in Range(st.excludeClasses) : Contains(doc.kind[e].class, s)

\* Closest testing the element alone, as element.matches(...) would
ClosestSelfOnly(doc, e, st) == IF MatchesExclude(doc, e, st) THEN e ELSE 0

\* element.closest(combinedExcludeSelectors): the nearest of the element and
\* its ancestors that matches, 0 (null) if none does
RECURSIVE Closest(_, _, _)
Closest(doc, e, st) ==
  IF e = 0 THEN 0
  ELSE IF MatchesExclude(doc, e, st) THEN e
       ELSE Closest(doc, doc.parent[e], st)

\* lines 42-48: is combinedExcludeSelectors a non-empty string
HasExcludeSelectors(st) ==
  st.excludeElements # << >> \/ st.excludeIDs # << >> \/ st.excludeClasses # << >>

\* the DOM library rejects the selector built from the list
Rejected(list) == "!" \in Range(list)

\* QuerySelectorAll keeping only the elements without child elements
QuerySelectorAllLeaves(doc, st) ==
  SelectSeq([e \in 1..doc.n |-> e],
            LAMBDA e : /\ \/ st.includeElements = << >>
                          \/ doc.kind[e].tag \in Range(st.includeElements)
                       /\ \A c \in 1..doc.n : doc.parent[c] # e)

\* QuerySelectorAll of "*" whatever includeSelectors is
QuerySelectorAllStar(doc, st) == [e \in 1..doc.n |-> e]

\* lines 59-63: document.querySelectorAll(includeSelectors), or of "*": the
\* matching elements in document order
QuerySelectorAll(doc, st) ==
  SelectSeq([e \in 1..doc.n |-> e],
            LAMBDA e : \/ st.includeElements = << >>
                       \/ doc.kind[e].tag \in Range(st.includeElements))

\* lines 65-82: the elements whose text is pushed, in the order of the
\* forEach loop
PushedElements(doc, st) ==
  IF HasExcludeSelectors(st)
  THEN SelectSeq(QuerySelectorAll(doc, st),
                 LAMBDA e : /\ Closest(doc, e, st) = 0
                            /\ NormalizedText(doc, e) # << >>)
  ELSE SelectSeq(QuerySelectorAll(doc, st),
                 LAMBDA e : NormalizedText(doc, e) # << >>)

\* Caught with the error thrown on to the caller
CaughtRethrow(err) == [pc |-> "threw", error |-> err]

\* lines 85-88: the catch block logs the error and returns []
Caught(err) == [pc |-> "returned", error |-> "none"]

\* Init: a document behind the url, the filter lists of the settings
SpInit ==
  /\ url = ""
  /\ page \in Pages
  /\ settings \in Settings
  /\ spPc = "start"
  /\ pageText = << >>
  /\ textFrom = << >>
  /\ spFailure = "none"
  /\ spError = "none"
  /\ FrIdle
  /\ DkIdle
  /\ AcIdle
  /\ GfIdle
  /\ MnIdle
  /\ VdIdle
  /\ LgIdle

\* lines 33-35: scrapePage(url, ...) with a url that is empty or no string
ScrapePageInvalidUrl ==
  /\ spPc = "start"
  /\ url' = ""
  /\ spPc' = "threw"
  /\ spError' = "Invalid URL provided"
  /\ UNCHANGED <<page, settings, pageText, textFrom, spFailure>>
  /\ SpOnly

\* lines 33-53: scrapePage(url, ...) with a url: the selectors are built and
\* the page is requested
ScrapePageCall ==
  /\ spPc = "start"
  /\ \E u \in Urls \ {""} : url' = u
  /\ spPc' = "fetching"
  /\ UNCHANGED <<page, settings, pageText, textFrom, spFailure, spError>>
  /\ SpOnly

\* a step inside the try block threw: the catch block takes over
ScrapePageCatch(step) ==
  /\ spFailure' = step
  /\ spPc' = Caught(step).pc
  /\ spError' = Caught(step).error
  /\ pageText' = << >>
  /\ textFrom' = << >>
  /\ UNCHANGED <<url, page, settings>>
  /\ SpOnly

\* line 53: axios.get(url) rejects (network error, error status)
ScrapePageFetchRejected ==
  /\ spPc = "fetching"
  /\ ScrapePageCatch("fetch")

\* lines 54-56: the response is no markup JSDOM can build a document from
ScrapePageParseThrows ==
  /\ spPc = "fetching"
  /\ ScrapePageCatch("parse")

\* lines 59-63: querySelectorAll rejects includeSelectors
ScrapePageSelectThrows ==
  /\ spPc = "fetching"
  /\ Rejected(settings.includeElements)
  /\ ScrapePageCatch("select")

\* lines 65-69: closest rejects combinedExcludeSelectors at the first element
ScrapePageClosestThrows ==
  /\ spPc = "fetching"
  /\ ~Rejected(settings.includeElements)
  /\ Rejected(settings.excludeElements)
  /\ QuerySelectorAll(page, settings) # << >>
  /\ ScrapePageCatch("closest")

\* lines 53-84: the page arrives, the document is built, the elements are
\* selected, the loop pushes their texts and outputTexts is returned
ScrapePageReturn ==
  /\ spPc = "fetching"
  /\ ~Rejected(settings.includeElements)
  /\ ~Rejected(settings.excludeElements)
  /\ LET pushed == PushedElements(page, settings)
     IN /\ textFrom' = pushed
        /\ pageText' = [k \in 1..Len(pushed) |-> NormalizedText(page, pushed[k])]
  /\ spPc' = "returned"
  /\ UNCHANGED <<url, page, settings, spFailure, spError>>
  /\ SpOnly

SpNext ==
  \/ ScrapePageInvalidUrl
  \/ ScrapePageCall
  \/ ScrapePageFetchRejected
  \/ ScrapePageParseThrows
  \/ ScrapePageSelectThrows
  \/ ScrapePageClosestThrows
  \/ ScrapePageReturn

SpecScrape == SpInit /\ [][SpNext]_vars

-----------------------------------------------------------------------------
(* mainUserInputHandler: choosing or creating the deck *)

\* validateNewDeckName(deckName, decks) of input_validation.js, lines 107-128;
\* decks is whatever the caller passes second
ValidateNewDeckName(name, decks) ==
  IF Trim(name) = << >>
  THEN [validDeckName |-> FALSE, error |-> "Deck name cannot be empty"]
  ELSE IF Trim(name) \in ObjectKeys(decks)
       THEN [validDeckName |-> FALSE, error |-> "Deck name already exists"]
       ELSE [validDeckName |-> TRUE, error |-> "none"]

\* the validate callback of createDeckPrompt, anki_helper.js lines 120-125:
\* validateNewDeckName(input, ankiUrl, decks), whose second parameter thus
\* receives ankiUrl and whose third argument, decks, is dropped
CreateDeckPromptValidate(input, anki, decks) ==
  ValidateNewDeckName(input, StringValue(anki))

\* Init: the settings hold ankiUrl, Anki holds some decks
DkInit ==
  /\ ankiUrl \in AnkiUrls
  /\ currentDecks \in SUBSET DeckNames
  /\ dkPc = "start"
  /\ dkInput = << >>
  /\ dkMessage = "none"
  /\ deckName = << >>
  /\ createDeckRequests = << >>
  /\ FrIdle
  /\ SpIdle
  /\ GfIdle
  /\ MnIdle
  /\ VdIdle
  /\ LgIdle
  /\ AcIdle

\* lines 36-49: currentDecks = await deckNamesAndIds(ankiUrl), then the url
\* prompt
MainUserInputFetchDecks ==
  /\ dkPc = "start"
  /\ dkPc' = "selectDeck"
  /\ UNCHANGED <<ankiUrl, currentDecks, dkInput, dkMessage, deckName,
                 createDeckRequests>>
  /\ DkOnly

\* lines 50-62: the user picks one of the decks listed
MainUserInputSelectDeck ==
  /\ dkPc = "selectDeck"
  /\ \E d \in currentDecks : deckName' = d
  /\ dkPc' = "deckChosen"
  /\ UNCHANGED <<ankiUrl, currentDecks, dkInput, dkMessage, createDeckRequests>>
  /\ DkOnly

\* lines 50-58: the user picks "Create new deck": createDeckPrompt asks
MainUserInputCreateNewDeck ==
  /\ dkPc = "selectDeck"
  /\ dkPc' = "createPrompt"
  /\ UNCHANGED <<ankiUrl, currentDecks, dkInput, dkMessage, deckName,
                 createDeckRequests>>
  /\ DkOnly

\* createDeckPrompt: the user types a name that validate turns down; the
\* prompt shows the error and keeps asking
CreateDeckPromptRejects ==
  /\ dkPc = "createPrompt"
  /\ \E input \in TypedNames :
       LET r == CreateDeckPromptValidate(input, ankiUrl, ObjectValue(currentDecks))
       IN /\ ~r.validDeckName
          /\ dkInput' = input
          /\ dkMessage' = r.error
  /\ UNCHANGED <<ankiUrl, currentDecks, dkPc, deckName, createDeckRequests>>
  /\ DkOnly

\* createDeckPrompt: the user types a name that validate accepts; the prompt
\* resolves to it (as typed) and mainUserInputHandler takes it as deckName
CreateDeckPromptAccepts ==
  /\ dkPc = "createPrompt"
  /\ \E input \in TypedNames :
       LET r == CreateDeckPromptValidate(input, ankiUrl, ObjectValue(currentDecks))
       IN /\ r.validDeckName
          /\ dkInput' = input
          /\ dkMessage' = "none"
          /\ deckName' = input
  /\ dkPc' = "creating"
  /\ UNCHANGED <<ankiUrl, currentDecks, createDeckRequests>>
  /\ DkOnly

\* line 59: await createDeck(ankiUrl, deckName); whatever AnkiConnect answers
\* is logged and mainUserInputHandler goes on
MainUserInputCreateDeck ==
  /\ dkPc = "creating"
  /\ createDeckRequests' = Append(createDeckRequests, deckName)
  /\ dkPc' = "deckChosen"
  /\ UNCHANGED <<ankiUrl, currentDecks, dkInput, dkMessage, deckName>>
  /\ DkOnly

DkNext ==
  \/ MainUserInputFetchDecks
  \/ MainUserInputSelectDeck
  \/ MainUserInputCreateNewDeck
  \/ CreateDeckPromptRejects
  \/ CreateDeckPromptAccepts
  \/ MainUserInputCreateDeck

SpecDeck == DkInit /\ [][DkNext]_vars

-----------------------------------------------------------------------------
(* mainHandler: the tag prompts, the review loop and the log *)

AddTagsChoices ==
  {"Add the same tags to all cards", "Choose tags per card", "No tags"}

\* the index of the first "," of s, 0 if there is none
RECURSIVE FirstComma(_, _)
FirstComma(s, i) ==
  IF i > Len(s) THEN 0 ELSE IF s[i] = "," THEN i ELSE FirstComma(s, i + 1)

\* String.prototype.split(","): the pieces between the commas; the empty
\* string splits into one empty piece
RECURSIVE SplitComma(_)
SplitComma(s) ==
  LET i == FirstComma(s, 1)
  IN IF i = 0 THEN <<s>>
     ELSE <<SubSeq(s, 1, i - 1)>> \o SplitComma(SubSeq(s, i + 1, Len(s)))

\* typed.split(",").map((tag) => tag.trim())
ParseTags(typed) ==
  LET pieces == SplitComma(typed)
  IN [k \in 1..Len(pieces) |-> Trim(pieces[k])]

\* .replace(/"/g, '""')
RECURSIVE EscapeQuotes(_)
EscapeQuotes(s) ==
  IF s = << >> THEN << >>
  ELSE (IF Head(s) = "\"" THEN <<"\"", "\"">> ELSE <<Head(s)>>)
       \o EscapeQuotes(Tail(s))

\* utils.js lines 24-26: the record written for a card
CsvRecord(card) ==
  <<DateGenerated, Trim(EscapeQuotes(card.front)), Trim(EscapeQuotes(card.back))>>

\* WriteLogs with the header written by every call
WriteLogsHeaderAlways(file, cs) ==
  [exists |-> TRUE,
   records |-> file.records \o <<CsvHeader>>
               \o [k \in 1..Len(cs) |-> CsvRecord(cs[k])]]

\* writeLogs (utils.js lines 14-36): the header if the file is missing, then
\* one record per card, appended to the file or written as a new file
WriteLogs(file, cs) ==
  [exists |-> TRUE,
   records |-> file.records
               \o (IF file.exists THEN << >> ELSE <<CsvHeader>>)
               \o [k \in 1..Len(cs) |-> CsvRecord(cs[k])]]

\* the note of an addNote request (anki.js lines 158-169)
NoteOf(card, tagsValue) ==
  [deckName |-> deckName, front |-> card.front, back |-> card.back,
   tags |-> tagsValue]

\* Init: mainUserInputHandler has a deck, generateFlashCardText will return
\* flashcardText, the log file is missing or left by an earlier run
AcInit ==
  /\ saveToLogs = FALSE
  /\ addTags = "No tags"
  /\ tags = TagArray(<< >>)
  /\ flashcardText \in CardLists
  /\ acPc = "prompts"
  /\ cardIndex = 1
  /\ cardTags = TagArray(<< >>)
  /\ cardsAdded = << >>
  /\ addNoteRequests = << >>
  /\ ankiNotes = << >>
  /\ addNoteLog = << >>
  /\ csvFile \in {MissingFile, EarlierFile}
  /\ reviews = << >>
  /\ ankiUrl \in AnkiUrls
  /\ currentDecks = {<<"D">>}
  /\ dkPc = "deckChosen"
  /\ dkInput = << >>
  /\ dkMessage = "none"
  /\ deckName = <<"D">>
  /\ createDeckRequests = << >>
  /\ FrIdle
  /\ SpIdle
  /\ GfIdle
  /\ MnIdle
  /\ VdIdle
  /\ LgIdle

\* main_user_prompts.js lines 64-97: the saveToLogs and addTags prompts and,
\* for the same tags on all cards, the tags prompt; then (index.js lines
\* 193-220) the cards are generated and the review loop starts
MainUserInputTagPrompts ==
  /\ acPc = "prompts"
  /\ \E save \in BOOLEAN, choice \in AddTagsChoices :
       \E typed \in (IF choice = "Add the same tags to all cards"
                     THEN TypedTags ELSE {<< >>}) :
         /\ saveToLogs' = save
         /\ addTags' = choice
         /\ tags' = IF choice = "Add the same tags to all cards"
                    THEN TagArray(ParseTags(typed))
                    ELSE TagArray(<< >>)
  /\ acPc' = "review"
  /\ cardIndex' = 1
  /\ cardsAdded' = << >>
  /\ UNCHANGED <<flashcardText, cardTags, addNoteRequests, ankiNotes, addNoteLog,
                 csvFile>>
  /\ reviews' = reviews
  /\ AcOnly

\* ReviewDecline with the declined card posted to AnkiConnect all the same
ReviewDeclinePosts ==
  /\ acPc = "review"
  /\ cardIndex <= Len(flashcardText)
  /\ addNoteRequests' =
       Append(addNoteRequests, NoteOf(flashcardText[cardIndex], tags))
  /\ acPc' = "posting"
  /\ UNCHANGED <<saveToLogs, addTags, tags, flashcardText, cardIndex, cardTags,
                 cardsAdded, ankiNotes, addNoteLog, csvFile>>
  /\ reviews' = Append(reviews, FALSE)
  /\ AcOnly

\* reviewFlashcard answers false: the loop goes on to the next card
ReviewDecline ==
  /\ acPc = "review"
  /\ cardIndex <= Len(flashcardText)
  /\ cardIndex' = cardIndex + 1
  /\ UNCHANGED <<saveToLogs, addTags, tags, flashcardText, acPc, cardTags,
                 cardsAdded, addNoteRequests, ankiNotes, addNoteLog,
                 csvFile>>
  /\ reviews' = Append(reviews, FALSE)
  /\ AcOnly

\* addCardsSameTags lines 54-57: reviewFlashcard answers true, the card is
\* pushed to cardsAdded and addFlashcardToAnki posts the addNote request
SameTagsConfirm ==
  /\ acPc = "review"
  /\ cardIndex <= Len(flashcardText)
  /\ addTags # "Choose tags per card"
  /\ cardsAdded' = Append(cardsAdded, flashcardText[cardIndex])
  /\ addNoteRequests' =
       Append(addNoteRequests, NoteOf(flashcardText[cardIndex], tags))
  /\ acPc' = "posting"
  /\ UNCHANGED <<saveToLogs, addTags, tags, flashcardText, cardIndex, cardTags,
                 ankiNotes, addNoteLog, csvFile>>
  /\ reviews' = Append(reviews, TRUE)
  /\ AcOnly

\* addCardsDifferentTags lines 81-88: reviewFlashcard answers true, the tags
\* prompt is shown
DifferentTagsConfirm ==
  /\ acPc = "review"
  /\ cardIndex <= Len(flashcardText)
  /\ addTags = "Choose tags per card"
  /\ acPc' = "cardTags"
  /\ UNCHANGED <<saveToLogs, addTags, tags, flashcardText, cardIndex, cardTags,
                 cardsAdded, addNoteRequests, ankiNotes, addNoteLog,
                 csvFile>>
  /\ reviews' = Append(reviews, TRUE)
  /\ AcOnly

\* addCardsDifferentTags lines 83-100: the tags are typed and
\* addFlashcardToAnki posts the addNote request, with "" for no tags
DifferentTagsEntered ==
  /\ acPc = "cardTags"
  /\ \E typed \in TypedTags :
       /\ cardTags' = IF typed = << >> THEN EmptyStringTags
                      ELSE TagArray(ParseTags(typed))
       /\ addNoteRequests' =
            Append(addNoteRequests, NoteOf(flashcardText[cardIndex], cardTags'))
  /\ acPc' = "posting"
  /\ UNCHANGED <<saveToLogs, addTags, tags, flashcardText, cardIndex,
                 cardsAdded, ankiNotes, addNoteLog, csvFile>>
  /\ reviews' = reviews
  /\ AcOnly

\* addFlashcardToAnki has settled (it never throws) and the loop goes on:
\* addCardsDifferentTags pushes the card now (line 101), addCardsSameTags
\* has pushed it already
AfterAddFlashcardToAnki ==
  /\ acPc = "posting"
  /\ cardsAdded' = IF addTags = "Choose tags per card"
                   THEN Append(cardsAdded, flashcardText[cardIndex])
                   ELSE cardsAdded
  /\ cardIndex' = cardIndex + 1
  /\ acPc' = "review"
  /\ UNCHANGED <<saveToLogs, addTags, tags, flashcardText, cardTags,
                 addNoteRequests, csvFile>>
  /\ reviews' = reviews
  /\ AcOnly

\* anki.js lines 171-175: AnkiConnect added the note
AddNoteAdded ==
  /\ AfterAddFlashcardToAnki
  /\ ankiNotes' = Append(ankiNotes, addNoteRequests[Len(addNoteRequests)])
  /\ addNoteLog' = Append(addNoteLog, "added")

\* anki.js lines 171-172: AnkiConnect answered with an error (a duplicate
\* note, an unknown deck); the error is logged
AddNoteError ==
  /\ AfterAddFlashcardToAnki
  /\ ankiNotes' = ankiNotes
  /\ addNoteLog' = Append(addNoteLog, "error")

\* anki.js lines 176-178: the request did not reach AnkiConnect; the error is
\* logged
AddNoteUnreachable ==
  /\ AfterAddFlashcardToAnki
  /\ ankiNotes' = ankiNotes
  /\ addNoteLog' = Append(addNoteLog, "unreachable")

\* the for loop is over: cardsAdded is returned and becomes cardsToLog
AddCardsReturn ==
  /\ acPc = "review"
  /\ cardIndex > Len(flashcardText)
  /\ acPc' = "returned"
  /\ UNCHANGED <<saveToLogs, addTags, tags, flashcardText, cardIndex, cardTags,
                 cardsAdded, addNoteRequests, ankiNotes, addNoteLog,
                 csvFile>>
  /\ reviews' = reviews
  /\ AcOnly

\* index.js lines 222-224: saveToLogs is false, nothing is written
MainHandlerNoLogs ==
  /\ acPc = "returned"
  /\ ~saveToLogs
  /\ acPc' = "done"
  /\ UNCHANGED <<saveToLogs, addTags, tags, flashcardText, cardIndex, cardTags,
                 cardsAdded, addNoteRequests, ankiNotes, addNoteLog,
                 csvFile>>
  /\ reviews' = reviews
  /\ AcOnly

\* index.js lines 222-224, utils.js lines 14-36: writeLogs writes the cards
MainHandlerWriteLogs ==
  /\ acPc = "returned"
  /\ saveToLogs
  /\ csvFile' = WriteLogs(csvFile, cardsAdded)
  /\ acPc' = "done"
  /\ UNCHANGED <<saveToLogs, addTags, tags, flashcardText, cardIndex, cardTags,
                 cardsAdded, addNoteRequests, ankiNotes, addNoteLog>>
  /\ reviews' = reviews
  /\ AcOnly

\* utils.js lines 37-39: the write throws (no such directory, no permission);
\* the error is logged and the file stays as it was
MainHandlerWriteLogsFails ==
  /\ acPc = "returned"
  /\ saveToLogs
  /\ acPc' = "done"
  /\ UNCHANGED <<saveToLogs, addTags, tags, flashcardText, cardIndex, cardTags,
                 cardsAdded, addNoteRequests, ankiNotes, addNoteLog,
                 csvFile>>
  /\ reviews' = reviews
  /\ AcOnly

AcNext ==
  \/ MainUserInputTagPrompts
  \/ ReviewDecline
  \/ SameTagsConfirm
  \/ DifferentTagsConfirm
  \/ DifferentTagsEntered
  \/ AddNoteAdded
  \/ AddNoteError
  \/ AddNoteUnreachable
  \/ AddCardsReturn
  \/ MainHandlerNoLogs
  \/ MainHandlerWriteLogs
  \/ MainHandlerWriteLogsFails

SpecCards == AcInit /\ [][AcNext]_vars

-----------------------------------------------------------------------------
(* generateFlashCardText inside mainHandler *)

\* NoTextExtracted letting every array through
NoTextNever(a) == FALSE

\* line 15: pageTextArray.length === 0
NoTextExtracted(a) == a.items = << >>

\* formatResponse lines 95-103 as a whole: the cards of all the matches
RECURSIVE MatchesFrom(_, _)
MatchesFrom(s, from) ==
  LET m == RegexExec(s, from)
  IN IF m.found THEN <<CardOf(m)>> \o MatchesFrom(s, m.end) ELSE << >>

\* the request sendChatRequest builds (lines 52-60)
ChatRequestOf(a, c, m) ==
  [model |-> m.text, system |-> c.text, user |-> a.items]

\* Init: mainUserInputHandler has returned the deck and the answers to its
\* prompts, scrapePage has resolved to pageTextArray, and mainHandler calls
\* generateFlashCardText (index.js lines 190-205)
GfInit ==
  /\ pageTextArray \in PageTextArrays
  /\ context \in Contexts
  /\ apiKey \in ApiKeys
  /\ model \in Models
  /\ gfPc = "start"
  /\ gfError = "none"
  /\ chatRequests = << >>
  /\ mhPc = "generate"
  /\ saveToLogs \in BOOLEAN
  /\ \E choice \in AddTagsChoices :
       /\ addTags = choice
       /\ tags = IF choice = "Add the same tags to all cards"
                 THEN TagArray(ParseTags(<<"a">>))
                 ELSE TagArray(<< >>)
  /\ flashcardText = << >>
  /\ acPc = "idle"
  /\ cardIndex = 1
  /\ cardTags = TagArray(<< >>)
  /\ cardsAdded = << >>
  /\ addNoteRequests = << >>
  /\ ankiNotes = << >>
  /\ addNoteLog = << >>
  /\ csvFile = MissingFile
  /\ reviews = << >>
  /\ ankiUrl \in AnkiUrls
  /\ currentDecks = {<<"D">>}
  /\ dkPc = "deckChosen"
  /\ dkInput = << >>
  /\ dkMessage = "none"
  /\ deckName = <<"D">>
  /\ createDeckRequests = << >>
  /\ FrIdle
  /\ SpIdle
  /\ MnIdle
  /\ VdIdle
  /\ LgIdle

\* generateFlashCardText throws: the promise mainHandler awaits is rejected
\* and mainHandler ends there (nothing in mainHandler or main catches it)
GenerateThrow(err) ==
  /\ gfPc' = "threw"
  /\ gfError' = err
  /\ mhPc' = "rejected"
  /\ UNCHANGED <<pageTextArray, context, apiKey, model>>
  /\ UNCHANGED acVars
  /\ GfOnly

\* line 15: reading .length of a missing pageTextArray throws a TypeError
GenerateThrowTypeError ==
  /\ gfPc = "start"
  /\ pageTextArray.kind # "array"
  /\ chatRequests' = chatRequests
  /\ GenerateThrow("TypeError")

\* lines 15-17
GenerateThrowNoText ==
  /\ gfPc = "start"
  /\ pageTextArray.kind = "array"
  /\ NoTextExtracted(pageTextArray)
  /\ chatRequests' = chatRequests
  /\ GenerateThrow("No text extracted from the page")

\* lines 18-20
GenerateThrowNoContext ==
  /\ gfPc = "start"
  /\ pageTextArray.kind = "array"
  /\ ~NoTextExtracted(pageTextArray)
  /\ Falsy(context)
  /\ chatRequests' = chatRequests
  /\ GenerateThrow("No ChatGPT instructions provided")

\* lines 21-23
GenerateThrowNoApiKey ==
  /\ gfPc = "start"
  /\ pageTextArray.kind = "array"
  /\ ~NoTextExtracted(pageTextArray)
  /\ ~Falsy(context)
  /\ Falsy(apiKey)
  /\ chatRequests' = chatRequests
  /\ GenerateThrow("No API key provided")

\* lines 24-26
GenerateThrowNoModel ==
  /\ gfPc = "start"
  /\ pageTextArray.kind = "array"
  /\ ~NoTextExtracted(pageTextArray)
  /\ ~Falsy(context)
  /\ ~Falsy(apiKey)
  /\ Falsy(model)
  /\ chatRequests' = chatRequests
  /\ GenerateThrow("No model provided")

\* lines 28-33, 49-60: every check passed, sendChatRequest sends the request
GenerateSendChatRequest ==
  /\ gfPc = "start"
  /\ pageTextArray.kind = "array"
  /\ ~NoTextExtracted(pageTextArray)
  /\ ~Falsy(context)
  /\ ~Falsy(apiKey)
  /\ ~Falsy(model)
  /\ chatRequests' =
       Append(chatRequests, ChatRequestOf(pageTextArray, context, model))
  /\ gfPc' = "requesting"
  /\ UNCHANGED <<pageTextArray, context, apiKey, model, gfError, mhPc>>
  /\ UNCHANGED acVars
  /\ GfOnly

\* lines 63-69: the request fails; sendChatRequest logs the error and throws
\* it on
GenerateChatRequestFails ==
  /\ gfPc = "requesting"
  /\ chatRequests' = chatRequests
  /\ GenerateThrow("chat request failed")

\* line 34: formatResponse throws on the chat response (no content)
GenerateFormatResponseThrows ==
  /\ gfPc = "requesting"
  /\ \E r \in ChatResponses : NoContent(r)
  /\ chatRequests' = chatRequests
  /\ GenerateThrow("No content in the response")

\* lines 34-35, index.js lines 201-220: formatResponse returns the cards,
\* generateFlashCardText returns them and mainHandler starts the review loop
GenerateReturn ==
  /\ gfPc = "requesting"
  /\ \E r \in ChatResponses :
       /\ ~NoContent(r)
       /\ flashcardText' = MatchesFrom(r.text, 0)
  /\ gfPc' = "returned"
  /\ mhPc' = "addCards"
  /\ acPc' = "review"
  /\ cardIndex' = 1
  /\ cardsAdded' = << >>
  /\ UNCHANGED <<pageTextArray, context, apiKey, model, gfError, chatRequests>>
  /\ UNCHANGED <<saveToLogs, addTags, tags, cardTags, addNoteRequests,
                 ankiNotes, addNoteLog, csvFile, reviews>>
  /\ GfOnly

GfNext ==
  \/ GenerateThrowTypeError
  \/ GenerateThrowNoText
  \/ GenerateThrowNoContext
  \/ GenerateThrowNoApiKey
  \/ GenerateThrowNoModel
  \/ GenerateSendChatRequest
  \/ GenerateChatRequestFails
  \/ GenerateFormatResponseThrows
  \/ GenerateReturn
  \/ ReviewDecline
  \/ SameTagsConfirm
  \/ DifferentTagsConfirm
  \/ DifferentTagsEntered
  \/ AddNoteAdded
  \/ AddNoteError
  \/ AddNoteUnreachable
  \/ AddCardsReturn
  \/ MainHandlerNoLogs
  \/ MainHandlerWriteLogs
  \/ MainHandlerWriteLogsFails

SpecGenerate == GfInit /\ [][GfNext]_vars

-----------------------------------------------------------------------------
(* main and confirmSettings *)

\* saveSettings (settings.js lines 57-64): settings.json holds the settings
\* if writeFileSync succeeds; if it throws, the error is logged and the file
\* stays as it was
SaveSettings(file, st, ok) == IF ok THEN st ELSE file

\* what saveSettings logs
SaveLog(ok) == IF ok THEN "saved" ELSE "error"

\* loadSettings (settings.js lines 41-49): JSON.parse of the file, null if
\* that throws
LoadSettings(file) == file

\* Init: main calls confirmSettings (index.js line 134), which loads the
\* settings (settings.js lines 21-22)
MnInit ==
  /\ settingsFile \in SettingsValues \cup {NoSettings}
  /\ csSettings = LoadSettings(settingsFile)
  /\ csPc = "prompt"
  /\ lastSave = "none"
  /\ mainSettings = NoSettings
  /\ mnPc = "confirming"
  /\ runSettings = NoSettings
  /\ runs = 0
  /\ FrIdle
  /\ SpIdle
  /\ DkIdle
  /\ AcIdle
  /\ GfIdle
  /\ VdIdle
  /\ LgIdle

\* settings.js lines 25-33, index.js lines 134, 148: "Do you want to use
\* these settings?" is answered yes, confirmSettings returns settings; the
\* call of line 134 assigns them to main's settings, the call of line 148
\* drops them; then the loop of main calls mainHandler
ConfirmSettingsReturn ==
  /\ csPc = "prompt"
  /\ mnPc \in {"confirming", "editing"}
  /\ csPc' = "returned"
  /\ mainSettings' = IF mnPc = "confirming" THEN csSettings ELSE mainSettings
  /\ mnPc' = "handler"
  /\ UNCHANGED <<settingsFile, csSettings, lastSave, runSettings, runs>>
  /\ MnOnly

\* settings.js lines 25-28, 114-123: answered no, promptSettingsAdjustments
\* shows the keys of settings
ConfirmSettingsAdjust ==
  /\ csPc = "prompt"
  /\ csSettings # NoSettings
  /\ csPc' = "adjusting"
  /\ UNCHANGED <<settingsFile, csSettings, lastSave, mainSettings, mnPc,
                 runSettings, runs>>
  /\ MnOnly

\* settings.js line 122: answered no with settings null, Object.keys(null)
\* throws a TypeError that nothing catches
ConfirmSettingsAdjustThrows ==
  /\ csPc = "prompt"
  /\ csSettings = NoSettings
  /\ csPc' = "threw"
  /\ mnPc' = "crashed"
  /\ UNCHANGED <<settingsFile, csSettings, lastSave, mainSettings,
                 runSettings, runs>>
  /\ MnOnly

\* settings.js lines 127-135: a model is picked from the list
AdjustModel ==
  /\ csPc = "adjusting"
  /\ \E m \in ModelIds : csSettings' = [csSettings EXCEPT !.model = m]
  /\ UNCHANGED <<settingsFile, csPc, lastSave, mainSettings, mnPc,
                 runSettings, runs>>
  /\ MnOnly

\* settings.js lines 161-167, 181-238: the list is edited (items added,
\* removed, edited) and, at "Done", saved
AdjustEditList ==
  /\ csPc = "adjusting"
  /\ \E x \in ElementLists, ok \in BOOLEAN :
       /\ csSettings' = [csSettings EXCEPT !.excludeElements = x]
       /\ settingsFile' = SaveSettings(settingsFile, csSettings', ok)
       /\ lastSave' = SaveLog(ok)
  /\ UNCHANGED <<csPc, mainSettings, mnPc, runSettings, runs>>
  /\ MnOnly

\* settings.js lines 125-126, 28-29: "Done editing", the settings are saved
\* and shown again
AdjustDone ==
  /\ csPc = "adjusting"
  /\ \E ok \in BOOLEAN :
       /\ settingsFile' = SaveSettings(settingsFile, csSettings, ok)
       /\ lastSave' = SaveLog(ok)
  /\ csPc' = "prompt"
  /\ UNCHANGED <<csSettings, mainSettings, mnPc, runSettings, runs>>
  /\ MnOnly

\* index.js line 138: mainHandler(settings) runs, then the menu is shown
MainHandlerRun ==
  /\ mnPc = "handler"
  /\ runs < MaxRuns
  /\ runSettings' = mainSettings
  /\ runs' = runs + 1
  /\ mnPc' = "menu"
  /\ UNCHANGED <<settingsFile, csSettings, csPc, lastSave, mainSettings>>
  /\ MnOnly

\* index.js lines 140-151: "Run again"
MainRunAgain ==
  /\ mnPc = "menu"
  /\ mnPc' = "handler"
  /\ UNCHANGED <<settingsFile, csSettings, csPc, lastSave, mainSettings,
                 runSettings, runs>>
  /\ MnOnly

\* index.js lines 147-148, settings.js lines 21-22: "Edit settings",
\* confirmSettings is called and loads the settings
MainEditSettings ==
  /\ mnPc = "menu"
  /\ mnPc' = "editing"
  /\ csSettings' = LoadSettings(settingsFile)
  /\ csPc' = "prompt"
  /\ UNCHANGED <<settingsFile, lastSave, mainSettings, runSettings, runs>>
  /\ MnOnly

\* index.js lines 149-154: "Exit"
MainExit ==
  /\ mnPc = "menu"
  /\ mnPc' = "exited"
  /\ UNCHANGED <<settingsFile, csSettings, csPc, lastSave, mainSettings,
                 runSettings, runs>>
  /\ MnOnly

MnNext ==
  \/ ConfirmSettingsReturn
  \/ ConfirmSettingsAdjust
  \/ ConfirmSettingsAdjustThrows
  \/ AdjustModel
  \/ AdjustEditList
  \/ AdjustDone
  \/ MainHandlerRun
  \/ MainRunAgain
  \/ MainEditSettings
  \/ MainExit

SpecMain == MnInit /\ [][MnNext]_vars

-----------------------------------------------------------------------------
(* validateDirectory *)

\* the character classes of testPath (input_validation.js lines 67-68); of
\* the control characters only NUL is followed
WinInvalidChars == {"<", ">", ":", "\"", "/", "\\", "|", "?", "*", "NUL"}
UnixInvalidChars == {"NUL"}

ValidResult == [validPath |-> TRUE, error |-> "null"]
InvalidResult(err) == [validPath |-> FALSE, error |-> err]

\* testPath (lines 66-78)
TestPath(p, os) ==
  LET invalidChars == IF os = "win32" THEN WinInvalidChars ELSE UnixInvalidChars
  IN IF \E k \in 1..Len(p) : p[k] \in invalidChars
     THEN InvalidResult("Error: path contains invalid characters.")
     ELSE ValidResult

\* the path starts at the root
IsAbsolute(p, os) ==
  /\ Len(p) >= Len(Root(os))
  /\ SubSeq(p, 1, Len(Root(os))) = Root(os)

\* the index of the last separator of p at or before i, 0 if there is none
RECURSIVE LastSeparator(_, _, _)
LastSeparator(p, os, i) ==
  IF i = 0 THEN 0
  ELSE IF p[i] \in Separators(os) THEN i ELSE LastSeparator(p, os, i - 1)

\* path.dirname: the path without its last component; "." for a single
\* relative name, the root for a name in the root
Dirname(p, os) ==
  LET i == LastSeparator(p, os, Len(p))
  IN IF i = 0 THEN <<".">>
     ELSE IF IsAbsolute(p, os) /\ i <= Len(Root(os)) THEN Root(os)
     ELSE SubSeq(p, 1, i - 1)

\* the path resolved against the working directory
Absolute(p, os) ==
  IF p = <<".">> THEN Root(os)
  ELSE IF IsAbsolute(p, os) THEN p ELSE Root(os) \o p

\* statSync: "directory" or "file" for what is there, else the code of the
\* error thrown
StatSync(fs, p, os) ==
  LET a == Absolute(p, os)
  IN IF a = Root(os) THEN "directory"
     ELSE IF a = Root(os) \o <<"l">>
          THEN (IF fs.l \in {"directory", "readonly"} THEN "directory"
                ELSE IF fs.l = "file" THEN "file" ELSE "ENOENT")
          ELSE IF /\ Len(a) > Len(Root(os)) + 1
                  /\ SubSeq(a, 1, Len(Root(os)) + 1) = Root(os) \o <<"l">>
                  /\ a[Len(Root(os)) + 2] \in Separators(os)
                  /\ fs.l = "file"
                  /\ os # "win32"
               THEN "ENOTDIR"
               ELSE "ENOENT"

\* accessSync(p, W_OK) of a directory: "ok", or the code of the error
AccessSync(fs, p, os) ==
  LET a == Absolute(p, os)
  IN IF a = Root(os) THEN (IF fs.rootWritable THEN "ok" ELSE "EACCES")
     ELSE IF a = Root(os) \o <<"l">> /\ fs.l = "directory" THEN "ok"
     ELSE "EACCES"

\* lines 39-50: the path is missing, its parent decides
ValidateParent(fs, p, os) ==
  LET parentDir == Dirname(p, os)
      parentStats == StatSync(fs, parentDir, os)
  IN IF parentStats = "file"
     THEN InvalidResult("Parent path is not a directory")
     ELSE IF parentStats # "directory" THEN InvalidResult(parentStats)
     ELSE IF AccessSync(fs, parentDir, os) = "ok" THEN ValidResult
     ELSE InvalidResult(AccessSync(fs, parentDir, os))

\* validateDirectory (lines 23-54) on a supported platform
ValidateDirectory(fs, p, os) ==
  LET stats == StatSync(fs, p, os)
  IN IF ~TestPath(p, os).validPath THEN TestPath(p, os)
     ELSE IF stats = "file" THEN InvalidResult("Path is not a directory")
     ELSE IF stats = "directory"
          THEN (IF AccessSync(fs, p, os) = "ok" THEN ValidResult
                ELSE InvalidResult(AccessSync(fs, p, os)))
          ELSE IF stats = "ENOENT" THEN ValidateParent(fs, p, os)
          ELSE InvalidResult(stats)

\* Init: validateDirectory(dirpath) is called
VdInit ==
  /\ platform \in Platforms
  /\ dirpath \in Dirpaths(platform)
  /\ fileSystem \in FileSystems
  /\ vdPc = "start"
  /\ vdResult = NoResult
  /\ FrIdle
  /\ SpIdle
  /\ DkIdle
  /\ AcIdle
  /\ GfIdle
  /\ MnIdle
  /\ LgIdle

\* lines 19-21: throw new Error("Unsupported OS")
ValidateDirectoryUnsupportedOs ==
  /\ vdPc = "start"
  /\ platform \notin {"win32", "linux", "darwin"}
  /\ vdPc' = "threw"
  /\ UNCHANGED <<platform, dirpath, fileSystem, vdResult>>
  /\ VdOnly

\* lines 23-54
ValidateDirectoryReturn ==
  /\ vdPc = "start"
  /\ platform \in {"win32", "linux", "darwin"}
  /\ vdResult' = ValidateDirectory(fileSystem, dirpath, platform)
  /\ vdPc' = "returned"
  /\ UNCHANGED <<platform, dirpath, fileSystem>>
  /\ VdOnly

VdNext ==
  \/ ValidateDirectoryUnsupportedOs
  \/ ValidateDirectoryReturn

SpecDirectory == VdInit /\ [][VdNext]_vars

-----------------------------------------------------------------------------
(* writeLogs, called run after run on the same directory *)

\* Init: cards_generated.csv is missing and writeLogs has not been called
LgInit ==
  /\ logCalls = << >>
  /\ FrIdle
  /\ SpIdle
  /\ DkIdle
  /\ AcIdle
  /\ GfIdle
  /\ MnIdle
  /\ VdIdle

\* utils.js lines 14-36: writeLogs(directory, cards), the write goes through
WriteLogsWrites ==
  /\ Len(logCalls) < MaxRuns
  /\ \E cs \in CardLists :
       /\ csvFile' = WriteLogs(csvFile, cs)
       /\ logCalls' = Append(logCalls, [cards |-> cs, wrote |-> TRUE])
  /\ LgOnly

\* utils.js lines 14-39: writeLogs(directory, cards), appendFileSync or
\* writeFileSync throws; the error is logged and the file stays as it was
WriteLogsThrows ==
  /\ Len(logCalls) < MaxRuns
  /\ \E cs \in CardLists :
       logCalls' = Append(logCalls, [cards |-> cs, wrote |-> FALSE])
  /\ csvFile' = csvFile
  /\ LgOnly

LgNext ==
  \/ WriteLogsWrites
  \/ WriteLogsThrows

SpecLogs == LgInit /\ [][LgNext]_vars

-----------------------------------------------------------------------------
(* Claims about formatResponse (the Pair Extractor) *)

Chars(s) == {s[k] : k \in 1..Len(s)}

\* the pairs a response made of the blocks qas stands for
ExpectedCards(qas) ==
  [k \in 1..Len(qas) |-> [front |-> Trim(qas[k].q), back |-> Trim(qas[k].a)]]

\* C1: for n >= 1 blocks "Q: <question> A: <answer>" separated by a single
\* newline, with no newline after the last block, formatResponse returns
\* exactly the n pairs of the blocks, in block order, the last block included.
C1_EveryBlockEmitted ==
  (/\ frPc = "returned"
   /\ given.blocks # << >>
   /\ ~given.layout.ordinal /\ ~given.layout.emphasis
   /\ given.layout.sep = <<"\n">>
   /\ ~given.layout.trailing)
  => cards = ExpectedCards(given.blocks)

\* C2: for blocks "N. **Q: <q> A: <a>**", one per line, formatResponse returns
\* one pair per block, and no front and no back holds an emphasis character.
C2_EmphasisStripped ==
  (/\ frPc = "returned"
   /\ given.blocks # << >>
   /\ given.layout.ordinal /\ given.layout.emphasis
   /\ given.layout.sep = <<"\n">>)
  => /\ Len(cards) = Len(given.blocks)
     /\ \A k \in 1..Len(cards) :
          "*" \notin Chars(cards[k].front) \cup Chars(cards[k].back)

\* the text between "A: " of block k and the start of the next block, trimmed
\* as formatResponse trims a capture: the answer and the emphasis closing it
AnswerUpToNextBlock(lay, qa) ==
  Trim(qa.a \o (IF lay.emphasis THEN <<"*", "*">> ELSE << >>) \o lay.sep)

\* C21: for a response of several blocks, each following block beginning on a
\* new line with an optional ordinal and optional emphasis before "Q:", every
\* block but the last yields its own pair, whose answer runs up to the start
\* of the next block: the next block is not taken into it, and it does not
\* stop at a blank line inside the answer.
C21_AnswerEndsAtNextBlock ==
  (frPc = "returned" /\ Len(given.blocks) >= 2)
  => \A k \in 1..(Len(given.blocks) - 1) :
       /\ Len(cards) >= k
       /\ cards[k] = [front |-> Trim(given.blocks[k].q),
                      back |-> AnswerUpToNextBlock(given.layout, given.blocks[k])]

\* the response's textual content field is absent or empty
ContentAbsentOrEmpty(r) == r.kind # "string" \/ Len(r.text) = 0

\* C4: formatResponse throws if and only if the response's content is absent
\* or empty; every other response takes it into the matching loop and to its
\* return statement, with nothing thrown.
C4_ThrowsIffNoContent ==
  /\ frPc = "threw" => ContentAbsentOrEmpty(response)
  /\ frPc \in {"loop", "returned"} => ~ContentAbsentOrEmpty(response)
  /\ frPc \in {"loop", "returned"} => frError = "none" /\ lastIndex <= Len(content)

\* C4 witness: a response whose content is the empty string made
\* formatResponse throw
C4_Witness ==
  /\ frPc = "threw"
  /\ response.kind = "string"
  /\ frError = "No content in the response"

\* the text holds "Q:" and, somewhere after it, "A:"
HasQThenA(s) ==
  \E i \in 1..(Len(s) - 1), j \in 1..(Len(s) - 1) :
    /\ i + 2 <= j
    /\ SubSeq(s, i, i + 1) = <<"Q", ":">>
    /\ SubSeq(s, j, j + 1) = <<"A", ":">>

\* C13: for a non-empty content without the markers, or with a "Q:" that no
\* "A:" follows, formatResponse throws nothing and returns an empty array.
C13_NoMarkersNoCards ==
  (/\ response.kind = "string"
   /\ response.text # << >>
   /\ ~HasQThenA(response.text))
  => /\ frPc # "threw"
     /\ frError = "none"
     /\ cards = << >>

\* C13 witness: formatResponse returned from a content with two "Q:" lines
\* and no "A:"
C13_Witness ==
  /\ frPc = "returned"
  /\ cards = << >>
  /\ frError = "none"
  /\ Len(content) > 3
  /\ \E i \in 1..(Len(content) - 1) : SubSeq(content, i, i + 1) = <<"Q", ":">>
  /\ ~\E j \in 1..(Len(content) - 1) : SubSeq(content, j, j + 1) = <<"A", ":">>

-----------------------------------------------------------------------------
(* Claims about scrapePage (the Text Extractor) *)

\* the child elements of e, in document order
Children(doc, e) ==
  SelectSeq([c \in 1..doc.n |-> c], LAMBDA c : doc.parent[c] = e)

\* the text of e and of its descendants, with the subtrees of the elements
\* in skip left out
RECURSIVE DescendantText(_, _, _)
DescendantText(doc, e, skip) ==
  IF e \in skip THEN << >>
  ELSE LET cs == Children(doc, e)
       IN doc.text[e]
          \o Flatten([k \in 1..Len(cs) |-> DescendantText(doc, cs[k], skip)])

\* s occurs in t as a substring
IsSubstringOf(s, t) ==
  \E i \in 1..(Len(t) + 1), j \in 0..Len(t) : SubSeq(t, i, j) = s

\* the combined exclusion predicate: an excluded tag, an id holding an
\* excluded substring, a class attribute holding an excluded substring
IsExcluded(doc, e, st) ==
  \/ \E k \in 1..Len(st.excludeElements) : st.excludeElements[k] = doc.kind[e].tag
  \/ \E k \in 1..Len(st.excludeIDs) : IsSubstringOf(st.excludeIDs[k], doc.kind[e].id)
  \/ \E k \in 1..Len(st.excludeClasses) :
       IsSubstringOf(st.excludeClasses[k], doc.kind[e].class)

\* the elements whose tag is an excluded tag
ExcludedTagElements(doc, st) ==
  {e \in 1..doc.n : doc.kind[e].tag \in Range(st.excludeElements)}

\* scrapePage returned outputTexts (nothing threw)
ScrapedNormally == spPc = "returned" /\ spFailure = "none"

\* C3: with a tag among the excluded tags, no fragment holds text of an
\* element with that tag or of its descendants, also not the fragments of
\* their ancestors (each fragment is the element's text without the excluded
\* subtrees), and the fragment of every element outside those subtrees is
\* still there.
C3_ExcludedTagTextRemoved ==
  ScrapedNormally =>
    /\ \A k \in 1..Len(pageText) :
         pageText[k] =
           Trim(CollapseWhitespace(
             DescendantText(page, textFrom[k], ExcludedTagElements(page, settings))))
    /\ \A e \in Range(QuerySelectorAll(page, settings)) :
         (/\ \A a \in 1..page.n :
               IsAncestorOrSelf(page.parent, a, e) => ~IsExcluded(page, a, settings)
          /\ NormalizedText(page, e) # << >>)
         => e \in Range(textFrom)

\* C7: no fragment comes from an element that matches the exclusion predicate
\* or has an ancestor that matches it.
C7_NoFragmentUnderExcluded ==
  spPc = "returned" =>
    \A k \in 1..Len(textFrom) : \A a \in 1..page.n :
      IsAncestorOrSelf(page.parent, a, textFrom[k]) => ~IsExcluded(page, a, settings)

\* C7 witness: an element with text that matches no rule itself was skipped
\* under an excluded parent, while other fragments were returned
C7_Witness ==
  /\ ScrapedNormally
  /\ pageText # << >>
  /\ \E e \in Range(QuerySelectorAll(page, settings)) :
       /\ ~IsExcluded(page, e, settings)
       /\ page.parent[e] # 0
       /\ IsExcluded(page, page.parent[e], settings)
       /\ NormalizedText(page, e) # << >>
       /\ e \notin Range(textFrom)

C9_AllElementsInOrder ==
  (ScrapedNormally /\ settings = NoFilters) =>
    pageText =
      SelectSeq([e \in 1..page.n |->
                   Trim(CollapseWhitespace(DescendantText(page, e, {})))],
                LAMBDA s : s # << >>)

\* C9 witness: a container and an element nested in it gave the same fragment
C9_Witness ==
  /\ ScrapedNormally
  /\ settings = NoFilters
  /\ \E i, j \in 1..Len(pageText) :
       /\ i < j
       /\ pageText[i] = pageText[j]
       /\ IsAncestorOrSelf(page.parent, textFrom[i], textFrom[j])

\* a normalized fragment: not empty, no whitespace at either end, no newline
\* or tab, no two whitespace characters in a row
IsNormalized(s) ==
  /\ s # << >>
  /\ ~IsSpace(s[1]) /\ ~IsSpace(s[Len(s)])
  /\ \A k \in 1..Len(s) : s[k] \notin {"\n", "\t"}
  /\ \A k \in 1..(Len(s) - 1) : ~(IsSpace(s[k]) /\ IsSpace(s[k + 1]))

\* C10: every fragment scrapePage returns is normalized, with exclusion
\* filters and without.
C10_FragmentsNormalized ==
  spPc = "returned" => \A k \in 1..Len(pageText) : IsNormalized(pageText[k])

\* C10 witness: on the path with exclusion filters, a fragment of an element
\* whose text holds a newline, a tab and whitespace at both ends
C10_Witness ==
  /\ ScrapedNormally
  /\ HasExcludeSelectors(settings)
  /\ \E k \in 1..Len(pageText) :
       LET raw == TextContent(page, textFrom[k])
       IN /\ {"\n", "\t"} \subseteq Chars(raw)
          /\ IsSpace(raw[1]) /\ IsSpace(raw[Len(raw)])
          /\ pageText[k] = <<"x", " ", "y">>

\* the id or the class attribute of e holds an entry of excludeIDs or of
\* excludeClasses as a substring
HoldsExcludedSubstring(doc, e, st) ==
  \/ \E k \in 1..Len(st.excludeIDs) :
       IsSubstringOf(st.excludeIDs[k], doc.kind[e].id)
  \/ \E k \in 1..Len(st.excludeClasses) :
       IsSubstringOf(st.excludeClasses[k], doc.kind[e].class)

\* C11: an element whose id attribute holds a string of excludeIDs as a
\* substring, or whose class attribute holds a string of excludeClasses as a
\* substring, is excluded: no fragment is taken from it. The attribute need
\* not equal the string.
C11_SubstringExcludes ==
  ScrapedNormally =>
    \A e \in 1..page.n :
      HoldsExcludedSubstring(page, e, settings) => e \notin Range(textFrom)

\* C11 witness: an element with text whose id is longer than the excluded
\* substring it holds was left out, while other fragments were returned
C11_Witness ==
  /\ ScrapedNormally
  /\ pageText # << >>
  /\ \E e \in Range(QuerySelectorAll(page, settings)) :
       /\ \E k \in 1..Len(settings.excludeIDs) :
            /\ IsSubstringOf(settings.excludeIDs[k], page.kind[e].id)
            /\ settings.excludeIDs[k] # page.kind[e].id
       /\ page.kind[e].tag \notin Range(settings.excludeElements)
       /\ NormalizedText(page, e) # << >>
       /\ e \notin Range(textFrom)

\* neither e nor an ancestor of e matches the exclusion predicate
PassesExclusion(doc, e, st) ==
  \A a \in 1..doc.n : IsAncestorOrSelf(doc.parent, a, e) => ~IsExcluded(doc, a, st)

\* C12: with a non-empty include list every fragment is the normalized text
\* of an element whose tag is in the list and that passes the exclusion
\* check; with an empty include list every element of the tree is a
\* candidate, so each one that passes the exclusion check and has text gives
\* a fragment.
C12_IncludeSelectsCandidates ==
  ScrapedNormally =>
    /\ \A k \in 1..Len(pageText) :
         /\ pageText[k] =
              Trim(CollapseWhitespace(DescendantText(page, textFrom[k], {})))
         /\ PassesExclusion(page, textFrom[k], settings)
         /\ settings.includeElements # << >> =>
              \E i \in 1..Len(settings.includeElements) :
                settings.includeElements[i] = page.kind[textFrom[k]].tag
    /\ settings.includeElements = << >> =>
         \A e \in 1..page.n :
           (/\ PassesExclusion(page, e, settings)
            /\ Trim(CollapseWhitespace(DescendantText(page, e, {}))) # << >>)
           => e \in Range(textFrom)

\* C12 witness: with the include list ['p'] a p element gave a fragment and
\* a div with text, under no exclusion, gave none
C12_Witness ==
  /\ ScrapedNormally
  /\ settings.includeElements = <<"p">>
  /\ \E k \in 1..Len(textFrom) : page.kind[textFrom[k]].tag = "p"
  /\ \E e \in 1..page.n :
       /\ page.kind[e].tag = "div"
       /\ PassesExclusion(page, e, settings)
       /\ NormalizedText(page, e) # << >>
       /\ e \notin Range(textFrom)

\* the cards of cs the answers in answers confirmed, in the order of cs
RECURSIVE ConfirmedCards(_, _)
ConfirmedCards(cs, answers) ==
  IF answers = << >> \/ cs = << >> THEN << >>
  ELSE (IF Head(answers) THEN <<Head(cs)>> ELSE << >>)
       \o ConfirmedCards(Tail(cs), Tail(answers))

\* the card of an addNote request
CardOfNote(note) == [front |-> note.front, back |-> note.back]

C16_EmptyInputNoTags ==
  addTags # "Choose tags per card" =>
    \A k \in 1..Len(addNoteRequests) :
      /\ addNoteRequests[k].tags.type = "array"
      /\ \A i \in 1..Len(addNoteRequests[k].tags.items) :
           addNoteRequests[k].tags.items[i] # << >>

-----------------------------------------------------------------------------
(* Claims about generateFlashCardText in mainHandler *)

\* an argument is missing: undefined or the empty string
IsMissing(v) == v.kind = "undefined" \/ v.text = << >>

\* C14: with an empty or missing page text array, or a missing context, API
\* key or model, generateFlashCardText sends no chat-completion request: it
\* is at its start or has thrown, and the run of mainHandler reviews no card
\* and sends no addNote request.
C14_NoRequestWithoutInputs ==
  (\/ pageTextArray.kind = "undefined"
   \/ pageTextArray.items = << >>
   \/ IsMissing(context)
   \/ IsMissing(apiKey)
   \/ IsMissing(model))
  => /\ chatRequests = << >>
     /\ gfPc \in {"idle", "start", "threw"}
     /\ gfPc = "threw" => gfError # "none" /\ mhPc = "rejected"
     /\ acPc = "idle"
     /\ cardIndex = 1
     /\ cardsAdded = << >>
     /\ addNoteRequests = << >>

\* C14 witness: scrapePage resolved to the empty array, everything else was
\* there, and generateFlashCardText threw without a request being sent
C14_Witness ==
  /\ pageTextArray = JsArray(<< >>)
  /\ ~IsMissing(context) /\ ~IsMissing(apiKey) /\ ~IsMissing(model)
  /\ gfPc = "threw"
  /\ gfError = "No text extracted from the page"
  /\ mhPc = "rejected"
  /\ chatRequests = << >>

-----------------------------------------------------------------------------
(* Claims about the settings and main's loop *)

\* C15: when confirmSettings returns a settings object, after any number of
\* adjust rounds, the object equals the settings settings.json holds.
C15_ReturnedSettingsAreSaved ==
  (csPc = "returned" /\ csSettings # NoSettings) => csSettings = settingsFile

\* C18: every run of mainHandler gets the settings confirmed last: after
\* "Edit settings", a change and the confirmation, the next run uses the
\* changed settings.
C18_RunsUseConfirmedSettings ==
  (mnPc = "menu" /\ csPc = "returned") => runSettings = csSettings

-----------------------------------------------------------------------------
(* Claims about validateDirectory *)

\* C17: on win32, linux and darwin validateDirectory returns
\* {validPath: true, error: null} for the absolute path of an existing
\* writable directory, and for the absolute path of a missing entry whose
\* parent is an existing writable directory.
C17_WritableDirectoryIsValid ==
  (/\ vdPc = "returned"
   /\ fileSystem.l = "directory"
   /\ \/ dirpath = Root(platform) \o <<"l">>
      \/ dirpath = Root(platform) \o <<"l", Separator(platform), "n">>)
  => vdResult = [validPath |-> TRUE, error |-> "null"]

-----------------------------------------------------------------------------
(* Claims about the CSV log *)

\* a field as a CSV reader gives it back: every doubled quote is one quote
RECURSIVE Unescape(_)
Unescape(s) ==
  IF s = << >> THEN << >>
  ELSE IF Len(s) >= 2 /\ s[1] = "\"" /\ s[2] = "\""
       THEN <<"\"">> \o Unescape(SubSeq(s, 3, Len(s)))
       ELSE <<s[1]>> \o Unescape(Tail(s))

\* the cards of the calls in calls, call after call
RECURSIVE CardsOf(_)
CardsOf(calls) ==
  IF calls = << >> THEN << >> ELSE Head(calls).cards \o CardsOf(Tail(calls))

\* the file is the header followed by one row per card of cs, in order
IsLogOf(file, cs) ==
  /\ file.exists
  /\ Len(file.records) = 1 + Len(cs)
  /\ file.records[1] = CsvHeader
  /\ \A k \in 2..Len(file.records) : file.records[k] # CsvHeader
  /\ \A k \in 1..Len(cs) :
       /\ Unescape(file.records[k + 1][2]) = Trim(cs[k].front)
       /\ Unescape(file.records[k + 1][3]) = Trim(cs[k].back)

\* C19 as stated: starting from a missing file, after any calls of writeLogs
\* the file is the header, once and first, followed by one row per card of
\* every call, in the order of the calls and of their cards.
C19_EveryCallAddsItsRows ==
  logCalls # << >> => IsLogOf(csvFile, CardsOf(logCalls))

\* the calls whose write went through
WrittenCalls == SelectSeq(logCalls, LAMBDA c : c.wrote)

\* C19 amended: starting from a missing file, the file exists once the write
\* of a call went through; it is then the header, once and first, followed by
\* one row per card of every call whose write went through, in the order of
\* the calls and of their cards; a call whose write throws leaves the file
\* as it was.
C19_AppendOnlySingleHeader ==
  /\ WrittenCalls = << >> => csvFile = MissingFile
  /\ WrittenCalls # << >> => IsLogOf(csvFile, CardsOf(WrittenCalls))

\* C19 witness: two calls with cards wrote to the file, the second one
\* appending to what the first one wrote
C19_Witness ==
  /\ Len(WrittenCalls) >= 2
  /\ WrittenCalls[1].cards # << >>
  /\ WrittenCalls[2].cards # << >>
  /\ Len(csvFile.records) = 1 + Len(CardsOf(WrittenCalls))

-----------------------------------------------------------------------------
(* Claims about the create-deck prompt *)

\* C5: a name typed at the create-deck prompt is accepted only if it is not
\* empty after trimming and is the name of no deck in the list fetched from
\* Anki; createDeck is never called with the name of an existing deck.
C5_NewDeckNameIsNew ==
  /\ dkPc = "creating" =>
       Trim(deckName) # << >> /\ Trim(deckName) \notin currentDecks
  /\ \A k \in 1..Len(createDeckRequests) :
       /\ Trim(createDeckRequests[k]) # << >>
       /\ Trim(createDeckRequests[k]) \notin currentDecks

-----------------------------------------------------------------------------
(* Claims about the review loop and the log *)

\* the records this run wrote to the log
RecordsOfThisRun ==
  {k \in 1..Len(csvFile.records) : csvFile.records[k][1] = DateGenerated}

\* C6: every card a run of mainHandler writes to the CSV log was added to
\* Anki: a card whose addNote request was answered with an error, or did not
\* reach AnkiConnect, is not logged.
C6_LoggedCardsWereAdded ==
  acPc = "done" =>
    \A k \in RecordsOfThisRun :
      \E n \in 1..Len(ankiNotes) :
        csvFile.records[k] = CsvRecord(ankiNotes[n])

====
